---------------------------- MODULE Spec2Model ----------------------------
(***************************************************************************)
(* Model of wizzair_monitor.py: the monitoring loop (main_loop), the price *)
(* store (load_prev_prices / save_prev_prices), the fare fetcher           *)
(* (check_route_price), the change decision, the notifier (send_telegram,  *)
(* format_price) and the version resolver (get_current_api_version).       *)
(*                                                                         *)
(* Amounts are decimal literals of the upstream JSON, held here as a whole *)
(* number of hundredths (cents).  Python parses them to binary64 floats;   *)
(* the comparison of line 235 is computed below in binary64, bit for bit.  *)
(***************************************************************************)
EXTENDS Integers, Sequences, FiniteSets, TLC

(***************************************************************************)
(* Bounds of the model.                                                    *)
(***************************************************************************)
\* Longest route sequence the routes file holds.
MaxRoutes == 2
\* The decision inputs run from each base amount to MaxDelta cents above it.
MaxDelta == 3
\* Largest amount (in cents) of the small formatting inputs.
MaxFmtCents == 60
\* The longest calendar (outboundFlights) given to check_route_price as a
\* function.
MaxFlights == 2

(***************************************************************************)
(* Binary64 arithmetic.  A non-negative double below 2^11 is held as the   *)
(* natural number value * 2^60, written as a little-endian sequence of     *)
(* bits without leading zeros (the empty sequence is 0).                   *)
(***************************************************************************)
\* Significand width of a Python float (IEEE-754 binary64).
MantBits == 53

Bits(n, w) == [i \in 1..w |-> (n \div (2 ^ (i - 1))) % 2]

Bit(b, i) == IF i <= Len(b) THEN b[i] ELSE 0

Norm(b) ==
    LET ones == {i \in 1..Len(b) : b[i] = 1}
    IN IF ones = {} THEN <<>>
       ELSE SubSeq(b, 1, CHOOSE i \in ones : \A j \in ones : j <= i)

Inc(b) ==
    LET zeros == {i \in 1..(Len(b) + 1) : i > Len(b) \/ b[i] = 0}
        k == CHOOSE i \in zeros : \A j \in zeros : i <= j
    IN [i \in 1..(IF k > Len(b) THEN k ELSE Len(b)) |->
           IF i < k THEN 0 ELSE IF i = k THEN 1 ELSE b[i]]

\* a < b on the n low bits
LessUpTo(a, b, n) ==
    \E i \in 1..n : Bit(a, i) < Bit(b, i) /\ \A j \in (i + 1)..n : Bit(a, j) = Bit(b, j)

Less(a, b) == LessUpTo(a, b, IF Len(a) > Len(b) THEN Len(a) ELSE Len(b))

\* a - b for a >= b: bit i is a[i] - b[i] - borrow, the borrow into bit i
\* being "the low i-1 bits of a are less than those of b".
Minus(a, b) ==
    Norm([i \in 1..Len(a) |->
             (Bit(a, i) + Bit(b, i) + (IF LessUpTo(a, b, i - 1) THEN 1 ELSE 0)) % 2])

\* Round to MantBits significant bits, to nearest, ties to even.  sticky
\* says that the exact value has non-zero bits below bit 1 of b.
RoundNearestEven(b, sticky) ==
    IF Len(b) <= MantBits THEN b
    ELSE LET k == Len(b) - MantBits
             hi == SubSeq(b, k + 1, Len(b))
             rest == sticky \/ \E i \in 1..(k - 1) : b[i] = 1
             up == b[k] = 1 /\ (rest \/ hi[1] = 1)
         IN [i \in 1..k |-> 0] \o (IF up THEN Inc(hi) ELSE hi)

\* The double nearest to c/100: the quotient c * 2^60 / 100 by long
\* division in base 2^20, then rounded.
ParseFloat(c) ==
    LET W == 2 ^ 20
        q0 == c \div 100
        r0 == c % 100
        q1 == (r0 * W) \div 100
        r1 == (r0 * W) % 100
        q2 == (r1 * W) \div 100
        r2 == (r1 * W) % 100
        q3 == (r2 * W) \div 100
        r3 == (r2 * W) % 100
    IN RoundNearestEven(
           Norm(Bits(q3, 20) \o Bits(q2, 20) \o Bits(q1, 20) \o Bits(q0, 31)),
           r3 # 0)

\* abs(x - y) of two doubles: the exact difference, rounded.
FloatAbsDiff(x, y) ==
    IF Less(x, y) THEN RoundNearestEven(Minus(y, x), FALSE)
    ELSE RoundNearestEven(Minus(x, y), FALSE)

\* The literal 0.01 of line 235, in cents.
EpsilonCents == 1

\* abs(price - old_price) > 0.01, on floats
FloatExceedsEpsilon(price, old_price) ==
    Less(ParseFloat(EpsilonCents), FloatAbsDiff(ParseFloat(price), ParseFloat(old_price)))

\* price > old_price, on floats
FloatGreater(price, old_price) == Less(ParseFloat(old_price), ParseFloat(price))

\* The amounts upstream quotes in the monitoring loop: three prices one
\* cent apart.
SampleAmounts == {12802, 12803, 12804}
\* The amounts of the decision inputs.
DecisionAmounts == {b + d : b \in {10000, 12800}, d \in 0..MaxDelta}

\* Both comparisons, computed once for the amounts of the model: the
\* pairs <<price, old_price>> for which each one is true.
KnownAmounts == SampleAmounts \cup DecisionAmounts \cup {0}
ExceedsPairs ==
    UNION {IF FloatExceedsEpsilon(p[1], p[2]) THEN {p} ELSE {} : p \in KnownAmounts \X KnownAmounts}
GreaterPairs ==
    UNION {IF FloatGreater(p[1], p[2]) THEN {p} ELSE {} : p \in KnownAmounts \X KnownAmounts}

ExceedsEpsilon(price, old_price) ==
    IF price \in KnownAmounts /\ old_price \in KnownAmounts
    THEN <<price, old_price>> \in ExceedsPairs
    ELSE FloatExceedsEpsilon(price, old_price)

Greater(price, old_price) ==
    IF price \in KnownAmounts /\ old_price \in KnownAmounts
    THEN <<price, old_price>> \in GreaterPairs
    ELSE FloatGreater(price, old_price)


(***************************************************************************)
(* Data.                                                                   *)
(***************************************************************************)
\* API_VERSION = "27.36.0"
DefaultVersion == "27.36.0"
Versions == {DefaultVersion, "27.37.0"}

\* dict.get("amount") of a price object without an amount (Python None).
NoAmount == -1
\* dict.get("currencyCode") of a price object without a code (None; like
\* the empty string it is falsy, and it is never stored).
NoCurrency == ""

Currencies == {"EUR", "RON"}
TargetDate == "2025-07-01"
OtherDate == "2025-07-02"

Route(o, d, date, n) == [origin |-> o, destination |-> d, depart_date |-> date, adults |-> n]
\* Two routes that differ only in the passenger count, and a third one.
Routes ==
    {Route("OTP", "LTN", TargetDate, 1), Route("OTP", "LTN", TargetDate, 2),
     Route("OTP", "BGY", TargetDate, 1)}

\* f"{route['origin']}-{route['destination']}-{route['depart_date']}"
get_route_id(route) == <<route.origin, route.destination, route.depart_date>>
RouteIds == {get_route_id(r) : r \in Routes}

\* Route sequences of the routes file: no route written twice.
RouteSeqs ==
    UNION {{s \in [1..n -> Routes] : \A i, j \in 1..n : s[i] = s[j] => i = j}
             : n \in 0..MaxRoutes}

Observations ==
    {[price |-> 12802, currency |-> "EUR"], [price |-> 12803, currency |-> "EUR"],
     [price |-> 12804, currency |-> "EUR"]}

\* What check_route_price returns: None, or (price, currency).
NoResult == [ok |-> FALSE, price |-> NoAmount, currency |-> NoCurrency]
Found(price, currency) == [ok |-> TRUE, price |-> price, currency |-> currency]

\* What prev_prices.get(route_id) returns: None, or the stored entry.
NoPrior == [found |-> FALSE, price |-> NoAmount, currency |-> NoCurrency]
Lookup(store, id) ==
    IF id \in DOMAIN store
    THEN [found |-> TRUE, price |-> store[id].price, currency |-> store[id].currency]
    ELSE NoPrior

\* {} and d[route_id] = {"price": price, "currency": currency}
EmptyStore == [id \in {} |-> [price |-> 0, currency |-> NoCurrency]]
Put(store, id, price, currency) ==
    [k \in DOMAIN store \cup {id} |->
        IF k = id THEN [price |-> price, currency |-> currency] ELSE store[k]]

(***************************************************************************)
(* format_price.  A text is a sequence of pieces; "~" stands for the       *)
(* approximately-equal sign and "-" for the dash of the source.            *)
(***************************************************************************)
DigitChar == <<"0", "1", "2", "3", "4", "5", "6", "7", "8", "9">>

\* The decimal digits of n, at least one.
Digits(n) ==
    LET d == CHOOSE k \in 1..9 : n < 10 ^ k /\ (k = 1 \/ n >= 10 ^ (k - 1))
    IN [i \in 1..d |-> DigitChar[((n \div (10 ^ (d - i))) % 10) + 1]]

\* f"{x:.2f}" of the double nearest to c/100.
Fixed2(c) ==
    Digits(c \div 100) \o <<".">> \o <<DigitChar[((c % 100) \div 10) + 1], DigitChar[(c % 10) + 1]>>

\* A conversion that cuts the quotient off instead of rounding it.
ToEurCentsTruncated(price) == (10 * price) \div 49

\* round(price / 4.9, 2), in cents.  The quotient 10c/49 is never within
\* 1/98 of a half, so the float division and Python's round give the
\* nearest integer of the exact quotient.
ToEurCents(price) == (20 * price + 49) \div 98

format_price(price, currency) ==
    IF currency = "RON"
    THEN Fixed2(price) \o <<" ", "RON", " (~ ">> \o Fixed2(ToEurCents(price)) \o <<" ", "EUR", ")">>
    ELSE IF currency = "EUR"
    THEN Fixed2(price) \o <<" ", "EUR">>
    ELSE Fixed2(price) \o <<" ", currency>>

(***************************************************************************)
(* check_route_price, on the upstream answer.                              *)
(***************************************************************************)
Flight(date, priceType, amount, currencyCode) ==
    [date |-> date, priceType |-> priceType, amount |-> amount, currencyCode |-> currencyCode]

\* A test for presence only ("is not None"), which lets the amount 0 pass.
TruthyIfPresent(amount, currencyCode) == amount # NoAmount /\ currencyCode # NoCurrency

\* "if price and currency": None, 0 and "" are falsy.
Truthy(amount, currencyCode) ==
    amount # NoAmount /\ amount # 0 /\ currencyCode # NoCurrency

\* The loop of lines 149-162 from flight i on.
RECURSIVE ScanFlights(_, _, _)
ScanFlights(flights, i, target_date) ==
    IF i > Len(flights) THEN NoResult
    ELSE IF flights[i].date = target_date
    THEN IF flights[i].priceType = "price"
         THEN IF Truthy(flights[i].amount, flights[i].currencyCode)
              THEN Found(flights[i].amount, flights[i].currencyCode)
              ELSE ScanFlights(flights, i + 1, target_date)
         ELSE NoResult
    ELSE ScanFlights(flights, i + 1, target_date)

\* resp.kind: "transport" (the request raised), "http" (raise_for_status
\* raised), "ok" (a JSON body with outboundFlights).
check_route_price(route, resp) ==
    IF resp.kind = "ok" THEN ScanFlights(resp.flights, 1, route.depart_date) ELSE NoResult

\* A fetcher without the except clauses: a transport failure leaves it.
CheckRoutePriceUncaught(resp) == resp.kind \in {"transport", "http"}

\* Whether an exception leaves check_route_price: the try of line 134
\* catches HTTPError and Exception.
CheckRoutePriceRaises(resp) == FALSE

Answer(kind, flights) == [kind |-> kind, flights |-> flights]
\* The upstream answers of the monitoring loop.
Responses ==
    {Answer("transport", <<>>), Answer("http", <<>>), Answer("ok", <<>>),
     Answer("ok", <<Flight(OtherDate, "price", 12802, "EUR")>>),
     Answer("ok", <<Flight(TargetDate, "soldOut", NoAmount, NoCurrency)>>),
     Answer("ok", <<Flight(TargetDate, "price", 0, "EUR")>>)}
    \cup {Answer("ok", <<Flight(TargetDate, "price", o.price, o.currency)>>) : o \in Observations}
    \cup {Answer("ok", <<Flight(OtherDate, "price", 12804, "EUR"),
                         Flight(TargetDate, "price", o.price, o.currency)>>) : o \in Observations}

(***************************************************************************)
(* The change decision and the message of main_loop, lines 231-249.        *)
(***************************************************************************)
\* A decision that forgets the first sighting: it reports only a change
\* against a stored price.
NotifiesOnlyWithPrior(old, price) == old.found /\ ExceedsEpsilon(price, old.price)

\* old_price_data is None or abs(price - old_price_data["price"]) > 0.01
Notifies(old, price) == ~old.found \/ ExceedsEpsilon(price, old.price)

\* old_price = old_price_data["price"] if old_price_data else None, as a
\* condition: None and 0 are falsy.
OldPriceTruthy(old) == old.found /\ old.price # 0

\* "up" if old_price and price > old_price else "down"
Arrow(old, price) ==
    IF OldPriceTruthy(old) /\ Greater(price, old.price) THEN "up" ELSE "down"

ChangeMessage(old, price, currency, delivered) ==
    [kind |-> "change", arrow |-> Arrow(old, price),
     new |-> format_price(price, currency),
     old |-> IF OldPriceTruthy(old) THEN format_price(old.price, old.currency) ELSE <<"-">>,
     delivered |-> delivered]

FailureMessage(delivered) ==
    [kind |-> "failure", arrow |-> "", new |-> <<>>, old |-> <<>>, delivered |-> delivered]

\* A send_telegram without its try: a failed request leaves it.
SendTelegramUncaught(delivered) == ~delivered

\* Whether an exception leaves send_telegram: the try of line 92 catches
\* Exception.
SendTelegramRaises(delivered) == FALSE

\* Whether lines 225-249 call send_telegram for this result.
Sends(old, res) == ~res.ok \/ Notifies(old, res.price)

\* The send_telegram calls of lines 225-249, in order.
Messages(old, res, delivered) ==
    IF ~res.ok THEN <<FailureMessage(delivered)>>
    ELSE IF Notifies(old, res.price)
    THEN <<ChangeMessage(old, res.price, res.currency, delivered)>>
    ELSE <<>>

(***************************************************************************)
(* The version resolver and the price store.                               *)
(***************************************************************************)
\* What the build-number request gives: "network" (the request raised),
\* "http" (raise_for_status raised), "nomatch" (no version in the body),
\* "ok" (the pattern matched version).
Resolution(kind, version) == [kind |-> kind, version |-> version]
Resolutions ==
    {Resolution(k, DefaultVersion) : k \in {"network", "http", "nomatch"}}
    \cup {Resolution("ok", v) : v \in Versions}

\* A resolver that falls back to the default version when it fails.
ResolveResettingOnFailure(version, res) ==
    IF res.kind = "ok" THEN res.version ELSE DefaultVersion

\* API_VERSION after get_current_api_version.
get_current_api_version(version, res) ==
    IF res.kind = "ok" /\ res.version # version THEN res.version ELSE version

\* Whether an exception leaves get_current_api_version: the try of line 70
\* catches Exception.
ResolveRaises(res) == FALSE

\* prev_prices.json: absent, valid JSON holding a store, or not JSON
\* ("corrupt": a file that a failed write left truncated).
FileAbsent == [state |-> "absent", data |-> EmptyStore]
FileCorrupt == [state |-> "corrupt", data |-> EmptyStore]
FileHolding(store) == [state |-> "valid", data |-> store]

\* load_prev_prices; fault: reading the existing file raises.
load_prev_prices(f, fault) ==
    IF f.state = "absent" THEN EmptyStore
    ELSE IF f.state = "corrupt" \/ fault THEN EmptyStore
    ELSE f.data

\* The file after save_prev_prices(data); outcome: "ok", "openfail" (open
\* raises, the file is not touched), "writefail" (open truncated the file
\* and json.dump raised).
SaveOutcomes == {"ok", "openfail", "writefail"}
save_prev_prices(f, data, outcome) ==
    IF outcome = "ok" THEN FileHolding(data)
    ELSE IF outcome = "openfail" THEN f
    ELSE FileCorrupt

\* Whether an exception leaves load_prev_prices / save_prev_prices: both
\* catch Exception (lines 176 and 185).
LoadRaises(f, fault) == FALSE
SaveRaises(outcome) == FALSE

\* routes.json as main_loop finds it: "absent", "unreadable" (it exists
\* and open or json.load raises), "ok" with the route sequence.
RoutesFile(state, rs) == [state |-> state, routes |-> rs]
RoutesFiles ==
    {RoutesFile("absent", <<>>), RoutesFile("unreadable", <<>>)}
    \cup {RoutesFile("ok", rs) : rs \in RouteSeqs}

\* Whether an exception leaves the load of the routes (lines 205-206, no
\* try around them).
LoadRoutesRaises(rf) == rf.state = "unreadable"

(***************************************************************************)
(* State.                                                                  *)
(***************************************************************************)
VARIABLES
    pc,             \* where main_loop stands
    API_VERSION,    \* the global of line 45
    routes,         \* main_loop's routes
    prev_prices,    \* main_loop's prev_prices
    cur_prices,     \* main_loop's cur_prices
    idx,            \* the position of the for loop, 1-based
    result,         \* the result of check_route_price being handled
    file,           \* prev_prices.json
    \* history, for stating the properties
    log,            \* the route checks of this pass, in order
    fetched,        \* the check_route_price calls of this pass, in order
    passStartFile,  \* prev_prices.json when this pass loaded its routes
    routesState,    \* how this pass found routes.json
    resolved,       \* this pass's version resolution: "none" before it,
                    \* "failed", or the version the pattern captured
    loadFault,      \* whether this pass's read of prev_prices.json raised
    commitOutcome,  \* how this pass's save_prev_prices ended
    steady,         \* whether this pass repeats the committed pass before it
    lastNotified,   \* per route id, the new price of the last change message
                    \* (kept only by the specification that follows messages)
    \* inputs and result of the function specifications
    arg, ret

loopVars ==
    <<pc, API_VERSION, routes, prev_prices, cur_prices, idx, result, file, log, fetched,
      passStartFile, routesState, resolved, loadFault, commitOutcome, steady,
      lastNotified>>
vars == <<loopVars, arg, ret>>

\* steady: the routes and the fetch results of the pass before this one
\* when that pass committed and this pass has repeated it so far.
NotSteady == [on |-> FALSE, routes |-> <<>>, answers |-> <<>>]

LoopInit ==
    /\ pc = "resolve"
    /\ API_VERSION = DefaultVersion
    /\ routes = <<>>
    /\ prev_prices = EmptyStore
    /\ cur_prices = EmptyStore
    /\ idx = 1
    /\ result = NoResult
    /\ file = FileAbsent
    /\ log = <<>>
    /\ fetched = <<>>
    /\ passStartFile = FileAbsent
    /\ routesState = "none"
    /\ resolved = "none"
    /\ loadFault = FALSE
    /\ commitOutcome = "none"
    /\ steady = NotSteady
    /\ lastNotified = [id \in RouteIds |-> NoAmount]

Init == LoopInit /\ arg = <<>> /\ ret = <<>>

(***************************************************************************)
(* main_loop, one action per external call.                                *)
(***************************************************************************)
\* Line 197: get_current_api_version().
ResolveVersion ==
    /\ pc = "resolve"
    /\ \E res \in Resolutions :
          /\ API_VERSION' = get_current_api_version(API_VERSION, res)
          /\ resolved' = IF res.kind = "ok" THEN res.version ELSE "failed"
          /\ pc' = IF ResolveRaises(res) THEN "crashed" ELSE "routes"
    /\ UNCHANGED <<routes, prev_prices, cur_prices, idx, result, file, log, fetched,
                   passStartFile, routesState, loadFault, commitOutcome, steady, arg, ret,
                   lastNotified>>

\* Lines 200-206: the routes file.
LoadRoutesFrom(files) ==
    /\ pc = "routes"
    /\ \E rf \in files :
          /\ routesState' = rf.state
          /\ routes' = IF rf.state = "ok" THEN rf.routes ELSE routes
          /\ pc' = IF rf.state = "absent" THEN "sleep"
                   ELSE IF LoadRoutesRaises(rf) THEN "crashed"
                   ELSE "load"
          /\ steady' = IF rf.state = "ok" /\ steady.on /\ rf.routes = steady.routes
                       THEN steady ELSE NotSteady
    /\ UNCHANGED <<API_VERSION, prev_prices, cur_prices, idx, result, file, log, fetched,
                   passStartFile, resolved, loadFault, commitOutcome, arg, ret,
                   lastNotified>>

\* Lines 208-210: prev_prices = load_prev_prices(); cur_prices = copy.
LoadPrevPricesFrom(faults) ==
    /\ pc = "load"
    /\ \E fault \in (IF file.state = "valid" THEN faults ELSE {FALSE}) :
          /\ prev_prices' = load_prev_prices(file, fault)
          /\ loadFault' = (fault \/ file.state = "corrupt")
          /\ pc' = IF LoadRaises(file, fault) THEN "crashed"
                   ELSE IF Len(routes) = 0 THEN "commit" ELSE "fetch"
    /\ cur_prices' = prev_prices'
    /\ idx' = 1
    /\ steady' = IF loadFault' THEN NotSteady ELSE steady
    /\ UNCHANGED <<API_VERSION, routes, result, file, log, fetched, passStartFile,
                   routesState,
                   resolved, commitOutcome, arg, ret,
                   lastNotified>>

\* A fetch that resolves the version again before its request.
FetchRouteResolvingFrom(responses) ==
    /\ pc = "fetch"
    /\ \E resp \in responses, v \in Versions :
          /\ API_VERSION' = v
          /\ result' = check_route_price(routes[idx], resp)
          /\ fetched' = Append(fetched, [route |-> routes[idx], version |-> v])
          /\ pc' = "handle"
    /\ steady' = IF steady.on /\ result' # steady.answers[idx] THEN NotSteady ELSE steady
    /\ UNCHANGED <<routes, prev_prices, cur_prices, idx, file, log,
                   passStartFile, routesState, resolved, loadFault, commitOutcome, arg, ret,
                   lastNotified>>

\* A fetch that asks upstream a second time when the first answer gave
\* no price.
FetchRouteRetryingFrom(responses) ==
    /\ pc = "fetch"
    /\ \E first \in responses, second \in responses :
          LET call == [route |-> routes[idx], version |-> API_VERSION]
              retry == ~check_route_price(routes[idx], first).ok
          IN /\ result' = check_route_price(routes[idx], IF retry THEN second ELSE first)
             /\ fetched' = IF retry THEN fetched \o <<call, call>> ELSE Append(fetched, call)
             /\ pc' = "handle"
    /\ steady' = IF steady.on /\ result' # steady.answers[idx] THEN NotSteady ELSE steady
    /\ UNCHANGED <<API_VERSION, routes, prev_prices, cur_prices, idx, file, log,
                   passStartFile, routesState, resolved, loadFault, commitOutcome, arg, ret,
                   lastNotified>>

\* Lines 213-223: the fetch of route idx.
FetchRouteFrom(responses) ==
    /\ pc = "fetch"
    /\ \E resp \in responses :
          /\ result' = check_route_price(routes[idx], resp)
          /\ fetched' = Append(fetched, [route |-> routes[idx], version |-> API_VERSION])
          /\ pc' = IF CheckRoutePriceRaises(resp) THEN "crashed" ELSE "handle"
    /\ steady' = IF steady.on /\ result' # steady.answers[idx] THEN NotSteady ELSE steady
    /\ UNCHANGED <<API_VERSION, routes, prev_prices, cur_prices, idx, file, log,
                   passStartFile, routesState, resolved, loadFault, commitOutcome, arg, ret,
                   lastNotified>>

LoadRoutes == LoadRoutesFrom(RoutesFiles)
FetchRoute == FetchRouteFrom(Responses)

\* A route check that writes prev_prices.json after every route instead
\* of staging.
HandleResultSavingEachRoute ==
    /\ pc = "handle"
    /\ LET route == routes[idx]
           route_id == get_route_id(route)
           old_price_data == Lookup(prev_prices, route_id)
           sends == Sends(old_price_data, result)
       IN \E delivered \in (IF sends THEN BOOLEAN ELSE {TRUE}) :
             LET msgs == Messages(old_price_data, result, delivered)
             IN /\ cur_prices' = IF result.ok
                                 THEN Put(cur_prices, route_id, result.price, result.currency)
                                 ELSE cur_prices
                /\ log' = Append(log, [route |-> route, result |-> result,
                                       prior |-> old_price_data, msgs |-> msgs])
                /\ pc' = IF sends /\ SendTelegramRaises(delivered) THEN "crashed"
                         ELSE IF idx = Len(routes) THEN "commit" ELSE "fetch"
    /\ file' = save_prev_prices(file, cur_prices', "ok")
    /\ idx' = idx + 1
    /\ result' = NoResult
    /\ UNCHANGED <<API_VERSION, routes, prev_prices, fetched, passStartFile, routesState,
                   resolved, loadFault, commitOutcome, steady, arg, ret>>

\* Lines 225-251: the failure message, or staging, the decision and the
\* change message; then the pause and the next route.
HandleResult ==
    /\ pc = "handle"
    /\ LET route == routes[idx]
           route_id == get_route_id(route)
           old_price_data == Lookup(prev_prices, route_id)
           sends == Sends(old_price_data, result)
       IN \E delivered \in (IF sends THEN BOOLEAN ELSE {TRUE}) :
             LET msgs == Messages(old_price_data, result, delivered)
             IN /\ cur_prices' = IF result.ok
                                 THEN Put(cur_prices, route_id, result.price, result.currency)
                                 ELSE cur_prices
                /\ log' = Append(log, [route |-> route, result |-> result,
                                       prior |-> old_price_data, msgs |-> msgs])
                /\ pc' = IF sends /\ SendTelegramRaises(delivered) THEN "crashed"
                         ELSE IF idx = Len(routes) THEN "commit" ELSE "fetch"
    /\ idx' = idx + 1
    /\ result' = NoResult
    /\ UNCHANGED <<API_VERSION, routes, prev_prices, file, fetched, passStartFile, routesState,
                   resolved, loadFault, commitOutcome, steady, arg, ret>>

\* Line 253: save_prev_prices(cur_prices).
CommitFrom(outcomes) ==
    /\ pc = "commit"
    /\ \E outcome \in outcomes :
          /\ file' = save_prev_prices(file, cur_prices, outcome)
          /\ commitOutcome' = outcome
          /\ pc' = IF SaveRaises(outcome) THEN "crashed" ELSE "sleep"
    /\ UNCHANGED <<API_VERSION, routes, prev_prices, cur_prices, idx, result, log, fetched,
                   passStartFile, routesState, resolved, loadFault, steady, arg, ret,
                   lastNotified>>

\* Lines 202 and 259: time.sleep(CHECK_INTERVAL_MINUTES * 60), then the
\* next turn of the while loop.  The locals of the finished pass are dead
\* (each is assigned again before it is read) and are put back to their
\* first values; the history of the next pass starts.
Sleep ==
    /\ pc = "sleep"
    /\ pc' = "resolve"
    /\ routes' = <<>>
    /\ prev_prices' = EmptyStore
    /\ cur_prices' = EmptyStore
    /\ idx' = 1
    /\ log' = <<>>
    /\ fetched' = <<>>
    /\ passStartFile' = file
    /\ routesState' = "none"
    /\ resolved' = "none"
    /\ loadFault' = FALSE
    /\ commitOutcome' = "none"
    /\ steady' = IF commitOutcome = "ok"
                 THEN [on |-> TRUE, routes |-> routes,
                       answers |-> [i \in 1..Len(log) |-> log[i].result]]
                 ELSE NotSteady
    /\ UNCHANGED <<API_VERSION, result, file, arg, ret,
                   lastNotified>>

LoadPrevPrices == LoadPrevPricesFrom(BOOLEAN)
Commit == CommitFrom(SaveOutcomes)

\* The route check without the history of the messages.
HandleRoute == HandleResult /\ UNCHANGED lastNotified

Next ==
    \/ ResolveVersion
    \/ LoadRoutes
    \/ LoadPrevPrices
    \/ FetchRoute
    \/ HandleRoute
    \/ Commit
    \/ Sleep

Spec == Init /\ [][Next]_vars

(***************************************************************************)
(* The loop under a smaller environment, with the fairness of a running    *)
(* process: every external call returns and the interpreter takes the next *)
(* step.                                                                   *)
(***************************************************************************)
LiveRoutesFiles ==
    {RoutesFile("absent", <<>>), RoutesFile("unreadable", <<>>), RoutesFile("ok", <<>>),
     RoutesFile("ok", <<Route("OTP", "LTN", TargetDate, 1), Route("OTP", "BGY", TargetDate, 1)>>)}

LiveResponses ==
    {Answer("transport", <<>>), Answer("http", <<>>), Answer("ok", <<>>),
     Answer("ok", <<Flight(TargetDate, "soldOut", NoAmount, NoCurrency)>>),
     Answer("ok", <<Flight(TargetDate, "price", 12802, "EUR")>>),
     Answer("ok", <<Flight(TargetDate, "price", 12804, "EUR")>>)}

LiveLoadRoutes == LoadRoutesFrom(LiveRoutesFiles)
LiveFetchRoute == FetchRouteFrom(LiveResponses)

LiveNext ==
    \/ ResolveVersion
    \/ LiveLoadRoutes
    \/ LoadPrevPrices
    \/ LiveFetchRoute
    \/ HandleRoute
    \/ Commit
    \/ Sleep

LiveSpec == Init /\ [][LiveNext]_vars /\ WF_vars(LiveNext)

(***************************************************************************)
(* The loop over one route whose price moves by a cent at a time, with     *)
(* prev_prices.json read and written without fault, and with the history   *)
(* of the change messages.                                                 *)
(***************************************************************************)
DriftRoutesFiles == {RoutesFile("ok", <<Route("OTP", "LTN", TargetDate, 1)>>)}
DriftResponses ==
    {Answer("transport", <<>>)}
    \cup {Answer("ok", <<Flight(TargetDate, "price", o.price, o.currency)>>) : o \in Observations}

DriftLoadRoutes == LoadRoutesFrom(DriftRoutesFiles)
DriftLoadPrevPrices == LoadPrevPricesFrom({FALSE})
DriftFetchRoute == FetchRouteFrom(DriftResponses)
DriftCommit == CommitFrom({"ok"})

\* The route check, noting the new price of a change message it sent.
HandleRouteNoted ==
    /\ HandleResult
    /\ LET e == log'[Len(log')]
       IN lastNotified' =
              IF e.msgs # <<>> /\ e.msgs[1].kind = "change"
              THEN [lastNotified EXCEPT ![get_route_id(e.route)] = e.result.price]
              ELSE lastNotified

DriftNext ==
    \/ ResolveVersion
    \/ DriftLoadRoutes
    \/ DriftLoadPrevPrices
    \/ DriftFetchRoute
    \/ HandleRouteNoted
    \/ DriftCommit
    \/ Sleep

DriftSpec == Init /\ [][DriftNext]_vars

(***************************************************************************)
(* The decision of lines 231-249 and format_price as functions of their    *)
(* inputs.                                                                 *)
(***************************************************************************)
\* The prior entries: prev_prices.json is read as it is found, so also an
\* entry whose price is 0.
DecisionPriors ==
    {NoPrior} \cup
    {[found |-> TRUE, price |-> a, currency |-> c] :
        a \in DecisionAmounts \cup {0}, c \in Currencies}
DecisionInputs ==
    [old : DecisionPriors, res : {Found(a, c) : a \in DecisionAmounts, c \in Currencies}]

DecisionInit == LoopInit /\ arg \in DecisionInputs /\ ret = <<>>

ApplyDecision ==
    /\ ret = <<>>
    /\ ret' = <<Messages(arg.old, arg.res, TRUE)>>
    /\ UNCHANGED <<loopVars, arg>>

SpecDecision == DecisionInit /\ [][ApplyDecision]_vars

FormatAmounts == (0..MaxFmtCents) \cup {8000, 10000, 11550, 99999}
FormatInputs == [price : FormatAmounts, currency : {"RON", "EUR", "HUF"}]

FormatInit == LoopInit /\ arg \in FormatInputs /\ ret = <<>>

ApplyFormat ==
    /\ ret = <<>>
    /\ ret' = <<format_price(arg.price, arg.currency)>>
    /\ UNCHANGED <<loopVars, arg>>

SpecFormat == FormatInit /\ [][ApplyFormat]_vars

\* check_route_price on a returned calendar: entries for the requested
\* date or another one, with the flag "price" or another one, with or
\* without an amount (0 among the amounts) and a currency code.
CalendarFlights ==
    {Flight(d, t, a, c) : d \in {TargetDate, OtherDate}, t \in {"price", "soldOut"},
                          a \in {NoAmount, 0, 12802}, c \in {NoCurrency, "EUR"}}
Calendars == UNION {[1..n -> CalendarFlights] : n \in 0..MaxFlights}
FetchInputs ==
    [route : {Route("OTP", "LTN", TargetDate, 1)}, resp : {Answer("ok", fl) : fl \in Calendars}]

FetchInit == LoopInit /\ arg \in FetchInputs /\ ret = <<>>

ApplyFetch ==
    /\ ret = <<>>
    /\ ret' = <<check_route_price(arg.route, arg.resp)>>
    /\ UNCHANGED <<loopVars, arg>>

SpecFetch == FetchInit /\ [][ApplyFetch]_vars

(***************************************************************************)
(* Properties.                                                             *)
(***************************************************************************)
\* The entry of a route identity in prev_prices.json (none when the file
\* is absent or is not JSON).
StoreEntry(f, id) == Lookup(f.data, id)

\* A pass has run its commit and the write succeeded.
Committed == pc = "sleep" /\ commitOutcome = "ok"

\* The outcome the change detector gives, as line 235 and line 239 decide.
Classify(old, price) ==
    IF ~old.found THEN "NoPrior"
    ELSE IF ~ExceedsEpsilon(price, old.price) THEN "Unchanged"
    ELSE IF Greater(price, old.price) THEN "Increased"
    ELSE "Decreased"

\* C1: after the commit of a pass, for every route whose fetch failed in
\* that pass (taken as: every route identity none of
\* whose routes fetched a price), the entry of prev_prices.json for the
\* route's identity equals the entry before the pass: not removed, not
\* changed, and absent if it was absent.
C1_FailedRouteKept ==
    Committed =>
        \A i \in 1..Len(log) :
            (\A j \in 1..Len(log) :
                get_route_id(log[j].route) = get_route_id(log[i].route) => ~log[j].result.ok)
            => StoreEntry(file, get_route_id(log[i].route))
                   = StoreEntry(passStartFile, get_route_id(log[i].route))

\* C2: after the commit of a pass, for every route whose fetch succeeded
\* in that pass, the entry of prev_prices.json for the route's identity is
\* the (amount, currency) that fetch returned, whatever the outcome of the
\* change decision.
C2_FetchedRouteStored ==
    Committed =>
        \A i \in 1..Len(log) :
            log[i].result.ok =>
                StoreEntry(file, get_route_id(log[i].route))
                    = [found |-> TRUE, price |-> log[i].result.price,
                       currency |-> log[i].result.currency]

\* C3: every route check of a pass calls send_telegram exactly once when
\* the fetch failed (the failure message) or when the fetched price is
\* classified NoPrior, Increased or Decreased against the loaded store (the
\* change message), and not at all when it is classified Unchanged.
C3_OneMessagePerEvent ==
    \A i \in 1..Len(log) :
        LET e == log[i]
        IN /\ e.prior = Lookup(prev_prices, get_route_id(e.route))
           /\ IF ~e.result.ok
              THEN Len(e.msgs) = 1 /\ e.msgs[1].kind = "failure"
              ELSE IF Classify(e.prior, e.result.price) = "Unchanged"
              THEN e.msgs = <<>>
              ELSE Len(e.msgs) = 1 /\ e.msgs[1].kind = "change"

\* A pass whose first route failed (one failure message), whose second
\* route moved by a cent that the decision calls unchanged (no message),
\* after an earlier pass that reported that second route's first price.
C3_Witness ==
    /\ Len(log) = 2
    /\ ~log[1].result.ok /\ Len(log[1].msgs) = 1
    /\ log[2].result.ok /\ log[2].prior.found
    /\ log[2].prior.price # log[2].result.price
    /\ log[2].msgs = <<>>

\* C4: for a fetched price the decision of main_loop is: no prior entry,
\* a change message (always); a prior entry and |new - prior| <= 0.01, no
\* message; new - prior > 0.01, a change message marked up; new - prior <
\* -0.01, a change message marked down.  The amounts are the decimal
\* amounts upstream sent; neither currency takes part.
C4_DecisionTable ==
    ret # <<>> =>
        LET old == arg.old
            new == arg.res.price
            msgs == ret[1]
        IN IF ~old.found
           THEN Len(msgs) = 1 /\ msgs[1].kind = "change"
           ELSE IF new - old.price <= EpsilonCents /\ old.price - new <= EpsilonCents
           THEN msgs = <<>>
           ELSE /\ Len(msgs) = 1
                /\ msgs[1].kind = "change"
                /\ msgs[1].arrow = IF new > old.price THEN "up" ELSE "down"

\* C5: prev_prices.json is written only by the commit at the end of a
\* pass, after every route has been checked: while a pass runs, the file
\* is the file as the pass found it, so a crash before the commit loses
\* only the staged updates.
C5_WrittenOnlyAtCommit ==
    /\ [][(file' # file) => (pc = "commit" /\ Len(log) = Len(routes) /\ pc' = "sleep")]_vars
    /\ [](pc \in {"resolve", "routes", "load", "fetch", "handle", "commit", "crashed"}
              => file = passStartFile)

\* A pass with a staged price that the file does not hold yet: the file
\* still is what the pass before it committed.
C5_Witness ==
    /\ pc = "fetch"
    /\ idx = 2
    /\ cur_prices # prev_prices
    /\ file.state = "valid"
    /\ file.data = prev_prices
    /\ file.data # EmptyStore

\* C6: a failure to read prev_prices.json at the start of a pass, or to
\* write it at the commit, ends the process: the loop does not go on.
C6_PersistenceFailureTerminates ==
    (loadFault \/ commitOutcome \in {"openfail", "writefail"}) => pc = "crashed"

\* C7: when routes.json is absent or cannot be read or parsed, the rest of
\* the pass is skipped: no route is fetched, no message is sent, the store
\* is not written, and the loop sleeps (from where the next pass starts).
C7_UnloadableRoutesSkipPass ==
    routesState \in {"absent", "unreadable"} =>
        /\ pc = "sleep"
        /\ log = <<>>
        /\ commitOutcome = "none"
        /\ file = passStartFile

\* C8: whatever the resolver, the fetches and the dispatches of a pass do,
\* a pass that has loaded its routes checks every route and reaches the
\* commit, the commit is followed by the sleep, and the sleep by a new
\* pass.
C8_PassCompletes ==
    /\ (pc \in {"load", "fetch", "handle"}) ~> (pc = "commit" /\ Len(log) = Len(routes))
    /\ (pc = "commit") ~> (pc = "sleep")
    /\ (pc = "sleep") ~> (pc = "resolve")
    /\ (pc = "resolve") ~> (pc = "routes")

\* The end of a pass whose version resolution failed, in which a fetch
\* failed and a dispatch failed.
C8_Witness ==
    /\ pc = "sleep"
    /\ commitOutcome # "none"
    /\ resolved = "failed"
    /\ \E i \in 1..Len(log) : ~log[i].result.ok
    /\ \E i \in 1..Len(log) : \E k \in 1..Len(log[i].msgs) : ~log[i].msgs[k].delivered

\* C9: when a pass committed and the next pass has the same routes and
\* every fetch returns what it returned in the committed pass, the next
\* pass sends no change message and its commit leaves prev_prices.json as
\* it was; also when two routes share the identity and differ in the
\* passenger count.
C9_SteadyIsQuiet ==
    steady.on =>
        /\ \A i \in 1..Len(log) : \A k \in 1..Len(log[i].msgs) : log[i].msgs[k].kind # "change"
        /\ Committed => file = passStartFile

\* Reading a text back: whether s is the decimal numeral, with exactly two
\* decimals and no spare leading zero, of c hundredths.
IsDigit(ch) == \E i \in 1..10 : DigitChar[i] = ch
DigitValue(ch) == (CHOOSE i \in 1..10 : DigitChar[i] = ch) - 1
RECURSIVE NumeralValue(_)
NumeralValue(s) ==
    IF s = <<>> THEN 0 ELSE 10 * NumeralValue(SubSeq(s, 1, Len(s) - 1)) + DigitValue(s[Len(s)])
ShowsAmount(s, c) ==
    /\ Len(s) >= 4
    /\ s[Len(s) - 2] = "."
    /\ \A i \in 1..Len(s) : i # Len(s) - 2 => IsDigit(s[i])
    /\ Len(s) > 4 => s[1] # "0"
    /\ NumeralValue(SubSeq(s, 1, Len(s) - 3) \o SubSeq(s, Len(s) - 1, Len(s))) = c

\* C10: format_price shows the amount with two decimals, then the currency
\* code; for RON, and only for RON, it adds the amount divided by 4.9 and
\* rounded to two decimals, as EUR: 80.00 RON reads "80.00 RON (~ 16.33
\* EUR)"; for any other currency nothing follows the code.
C10_FormatPrice ==
    ret # <<>> =>
        LET text == ret[1]
            price == arg.price
        IN /\ \E n \in 4..Len(text) :
                 /\ ShowsAmount(SubSeq(text, 1, n), price)
                 /\ LET rest == SubSeq(text, n + 1, Len(text))
                    IN IF arg.currency = "RON"
                       THEN /\ Len(rest) >= 10
                            /\ SubSeq(rest, 1, 3) = <<" ", "RON", " (~ ">>
                            /\ SubSeq(rest, Len(rest) - 2, Len(rest)) = <<" ", "EUR", ")">>
                            /\ \E e \in ((10 * price) \div 49)..((10 * price) \div 49 + 1) :
                                  /\ 98 * e - 20 * price <= 49
                                  /\ 20 * price - 98 * e <= 49
                                  /\ ShowsAmount(SubSeq(rest, 4, Len(rest) - 3), e)
                       ELSE rest = <<" ", arg.currency>>
           /\ (price = 8000 /\ arg.currency = "RON") =>
                 text = <<"8", "0", ".", "0", "0", " ", "RON", " (~ ",
                          "1", "6", ".", "3", "3", " ", "EUR", ")">>

\* 80.00 RON has been formatted, with its conversion.
C10_Witness ==
    /\ arg.price = 8000
    /\ arg.currency = "RON"
    /\ ret = <<format_price(8000, "RON")>>
    /\ Len(ret[1]) = 16

\* C11: when get_current_api_version fails (network error, non-2xx
\* answer, no version in the body), API_VERSION keeps the value it had, no
\* error leaves the call and the pass goes on to its routes, which it
\* fetches with that version; API_VERSION changes only in a resolution that
\* captured a version, and to that version.
C11_FailedResolutionKeepsVersion ==
    /\ [][/\ pc = "resolve" =>
               /\ pc' = "routes"
               /\ resolved' = "failed" => API_VERSION' = API_VERSION
               /\ resolved' # "failed" => API_VERSION' = resolved'
          /\ API_VERSION' # API_VERSION => pc = "resolve" /\ resolved' = API_VERSION']_vars
    /\ [](resolved = "failed" => \A i \in 1..Len(fetched) : fetched[i].version = API_VERSION)

\* A pass whose resolution failed fetches a route with the version an
\* earlier pass captured, which is not the default.
C11_Witness ==
    /\ pc = "handle"
    /\ resolved = "failed"
    /\ API_VERSION # DefaultVersion
    /\ Len(fetched) = 1
    /\ fetched[1].version = API_VERSION

\* C12: API_VERSION starts at the default, is resolved exactly once in a
\* pass and before any fetch of the pass, and does not change between the
\* fetches of a pass: every fetch uses the value that was current after
\* the pass's resolution.
C12_OneVersionPerPass ==
    /\ API_VERSION = DefaultVersion
    /\ [][/\ resolved' # resolved =>
               \/ pc = "resolve" /\ resolved = "none" /\ resolved' # "none"
               \/ pc = "sleep" /\ resolved' = "none"
          /\ pc = "resolve" => resolved' # "none"
          /\ API_VERSION' # API_VERSION => pc = "resolve"
          /\ fetched' # fetched /\ fetched' # <<>> => resolved # "none"]_vars
    /\ [](\A i \in 1..Len(fetched) : fetched[i].version = API_VERSION)

\* A pass that resolved a version other than the default and made two
\* fetches with it.
C12_Witness ==
    /\ resolved # "none" /\ resolved # "failed" /\ resolved # DefaultVersion
    /\ Len(fetched) = 2
    /\ fetched[1].version = resolved
    /\ fetched[2].version = resolved

\* C13: in a pass that loaded its routes every entry of the sequence is
\* fetched exactly once, in the order of the sequence, without retry and
\* without a skipped entry, and route i has been handled (its message
\* sent, its price staged) before route i+1 is fetched.
C13_EachRouteOnceInOrder ==
    /\ [](/\ Len(fetched) <= Len(routes)
          /\ \A i \in 1..Len(fetched) : fetched[i].route = routes[i]
          /\ \A i \in 1..Len(log) : log[i].route = routes[i]
          /\ Len(fetched) = IF pc = "handle" THEN Len(log) + 1 ELSE Len(log)
          /\ pc = "fetch" => Len(fetched) = idx - 1 /\ idx <= Len(routes)
          /\ \A i \in 1..Len(log) :
                log[i].result.ok =>
                    get_route_id(routes[i]) \in DOMAIN cur_prices
          /\ (pc \in {"commit", "sleep"} /\ routesState = "ok") =>
                 Len(fetched) = Len(routes) /\ Len(log) = Len(routes))
    /\ [][fetched' # fetched /\ fetched' # <<>> =>
              /\ Len(log) = Len(fetched)
              /\ fetched' = Append(fetched, [route |-> routes[Len(fetched) + 1],
                                             version |-> API_VERSION])]_vars

\* The end of the loop over two routes, the first of which gave no price:
\* two fetches, two handled checks.
C13_Witness ==
    /\ pc = "commit"
    /\ Len(routes) = 2
    /\ Len(fetched) = 2
    /\ Len(log) = 2
    /\ ~log[1].result.ok
    /\ log[2].result.ok

\* C14: on a returned calendar in which at most one entry has the
\* requested date, check_route_price returns no price when no entry has
\* the date, returns no price when the entry of the date has a flag other
\* than "price", and returns that entry's (amount, currency) when the
\* entry of the date is flagged "price" and has an amount and a currency
\* code, for every amount >= 0.
C14_CalendarLookup ==
    ret # <<>> =>
        LET flights == arg.resp.flights
            hits == {i \in 1..Len(flights) : flights[i].date = arg.route.depart_date}
        IN /\ hits = {} => ~ret[1].ok
           /\ \A i \in hits :
                 hits = {i} =>
                     /\ flights[i].priceType # "price" => ~ret[1].ok
                     /\ (/\ flights[i].priceType = "price"
                         /\ flights[i].amount # NoAmount
                         /\ flights[i].amount >= 0
                         /\ flights[i].currencyCode # NoCurrency)
                        => ret[1] = Found(flights[i].amount, flights[i].currencyCode)

\* C15: a send_telegram call that fails is made once and not repeated,
\* raises nothing into main_loop, and leaves the rest of the pass as it
\* would have been: the price of the route is staged, the loop goes on to
\* the next route or to the commit, every route is checked, and the commit
\* writes the staged price (unless a later route of the same identity
\* staged its own price over it).
C15_FailedDispatchAbsorbed ==
    /\ [][pc = "handle" =>
              LET e == log'[Len(log')]
                  id == get_route_id(routes[idx])
              IN /\ Len(log') = Len(log) + 1
                 /\ (e.msgs # <<>> /\ ~e.msgs[1].delivered) =>
                        /\ Len(e.msgs) = 1
                        /\ pc' = IF idx = Len(routes) THEN "commit" ELSE "fetch"
                        /\ idx' = idx + 1
                        /\ result.ok =>
                               Lookup(cur_prices', id) =
                                   [found |-> TRUE, price |-> result.price,
                                    currency |-> result.currency]]_vars
    /\ [](Committed =>
             /\ Len(log) = Len(routes)
             /\ \A i \in 1..Len(log) :
                   (/\ log[i].result.ok
                    /\ log[i].msgs # <<>>
                    /\ ~log[i].msgs[1].delivered
                    /\ \A j \in (i + 1)..Len(log) :
                          log[j].result.ok =>
                              get_route_id(log[j].route) # get_route_id(log[i].route))
                   => StoreEntry(file, get_route_id(log[i].route))
                          = [found |-> TRUE, price |-> log[i].result.price,
                             currency |-> log[i].result.currency])

\* A committed pass over two routes: the change message of the first was
\* not delivered, the second route was checked all the same, and the file
\* holds the first route's price.
C15_Witness ==
    /\ Committed
    /\ Len(log) = 2
    /\ log[1].result.ok
    /\ Len(log[1].msgs) = 1 /\ ~log[1].msgs[1].delivered
    /\ get_route_id(log[2].route) # get_route_id(log[1].route)
    /\ StoreEntry(file, get_route_id(log[1].route)).found
    /\ StoreEntry(file, get_route_id(log[1].route)).price = log[1].result.price

C17_StoredNearLastNotified ==
    pc = "sleep" =>
        \A id \in DOMAIN file.data :
            /\ lastNotified[id] # NoAmount
            /\ file.data[id].price - lastNotified[id] <= EpsilonCents
            /\ lastNotified[id] - file.data[id].price <= EpsilonCents

\* C18: prev_prices.json only accumulates: a pass whose commit wrote the
\* file keeps every route id the file held before the pass, and leaves
\* unchanged the entry of every id that no route of the pass has (a route
\* taken out of routes.json, for one).
C18_StoreOnlyGrows ==
    Committed =>
        /\ DOMAIN passStartFile.data \subseteq DOMAIN file.data
        /\ \A id \in DOMAIN passStartFile.data :
              (\A i \in 1..Len(routes) : get_route_id(routes[i]) # id)
              => StoreEntry(file, id) = StoreEntry(passStartFile, id)

\* An entry with an amount other than 0 and a currency code.
SoundEntry(e) == e.price # 0 /\ e.price # NoAmount /\ e.currency # NoCurrency

\* C19: every entry a pass stages is the (amount, currency) of a fetch
\* that succeeded, with an amount other than 0 and a currency code; from
\* the empty store on, prev_prices.json and the stores loaded from it hold
\* only such entries.
C19_OnlySoundEntries ==
    /\ [](/\ \A id \in DOMAIN cur_prices : SoundEntry(cur_prices[id])
          /\ \A id \in DOMAIN prev_prices : SoundEntry(prev_prices[id])
          /\ \A id \in DOMAIN file.data : SoundEntry(file.data[id]))
    /\ [][(pc = "handle" /\ cur_prices' # cur_prices) =>
              /\ result.ok
              /\ cur_prices' = Put(cur_prices, get_route_id(routes[idx]),
                                   result.price, result.currency)]_vars

\* A committed pass over two routes: the first gave no price and has no
\* entry, the second gave one and has its entry in the file.
C19_Witness ==
    /\ Committed
    /\ Len(log) = 2
    /\ ~log[1].result.ok
    /\ log[2].result.ok
    /\ DOMAIN file.data = {get_route_id(log[2].route)}
    /\ file.data[get_route_id(log[2].route)].price = log[2].result.price

=============================================================================
